---- MODULE Spec2Model ----
(***************************************************************************)
(* Model of the batch conversion engine of img_convert_gui.py:             *)
(* ImageConverter (convert_image, save_as_heic, cancel, run) together with *)
(* the MainWindow handlers that start, cancel and finish a run.            *)
(*                                                                         *)
(* Strings are sequences of one-character strings, so that upper(),        *)
(* lower(), splitext(), basename(), dirname() and join() are computed as   *)
(* the library computes them.                                              *)
(***************************************************************************)
EXTENDS Integers, Sequences, FiniteSets, TLC

(***************************************************************************)
(* Bounds of the model.                                                    *)
(***************************************************************************)
\* Largest number of files checked in the tree when Convert is pressed.
MaxFiles == 2
\* Largest value of the "Parallel workers" spin box that is explored.
MaxWorkers == 2
\* Largest number of files removed from disk by other programs during a run.
MaxEnvRemovals == 1
\* Largest number of ImageConverter runs the window is let start.
MaxConverters == 2

(***************************************************************************)
(* Characters and strings.                                                 *)
(***************************************************************************)
LowerChars ==
    << "a","b","c","d","e","f","g","h","i","j","k","l","m",
       "n","o","p","q","r","s","t","u","v","w","x","y","z" >>

UpperChars ==
    << "A","B","C","D","E","F","G","H","I","J","K","L","M",
       "N","O","P","Q","R","S","T","U","V","W","X","Y","Z" >>

\* str.upper() on one character.
UpperChar(c) ==
    IF \E i \in 1..Len(LowerChars) : LowerChars[i] = c
    THEN UpperChars[CHOOSE i \in 1..Len(LowerChars) : LowerChars[i] = c]
    ELSE c

\* str.lower() on one character.
LowerChar(c) ==
    IF \E i \in 1..Len(UpperChars) : UpperChars[i] = c
    THEN LowerChars[CHOOSE i \in 1..Len(UpperChars) : UpperChars[i] = c]
    ELSE c

\* str.upper()
upper(s) == [i \in 1..Len(s) |-> UpperChar(s[i])]

\* str.lower()
lower(s) == [i \in 1..Len(s) |-> LowerChar(s[i])]

\* str.rfind(c): the last index of c in s, 0 when there is none.
rfind(s, c) ==
    IF \E i \in 1..Len(s) : s[i] = c
    THEN CHOOSE i \in 1..Len(s) : s[i] = c /\ \A j \in (i+1)..Len(s) : s[j] # c
    ELSE 0

\* s[a:] of Python with a 1-based first index.
Tail_from(s, a) == SubSeq(s, a, Len(s))

\* str.endswith(suffix)
endswith(s, suffix) ==
    /\ Len(suffix) <= Len(s)
    /\ SubSeq(s, Len(s) - Len(suffix) + 1, Len(s)) = suffix

\* posixpath.basename: what follows the last separator.
basename(p) == Tail_from(p, rfind(p, "/") + 1)

\* posixpath.dirname: what precedes the last separator, trailing separators
\* stripped unless the head is made of separators only.
RECURSIVE rstrip_sep(_)
rstrip_sep(s) ==
    IF Len(s) > 0 /\ s[Len(s)] = "/" THEN rstrip_sep(SubSeq(s, 1, Len(s) - 1)) ELSE s

dirname(p) ==
    LET head == SubSeq(p, 1, rfind(p, "/"))
    IN  IF head # <<>> /\ \E i \in 1..Len(head) : head[i] # "/"
        THEN rstrip_sep(head)
        ELSE head

\* posixpath.splitext: split at the last dot of the last component, unless
\* only dots precede it in that component (leading dots are not an extension).
splitext(p) ==
    LET sep == rfind(p, "/")
        dot == rfind(p, ".")
    IN  IF dot > sep /\ \E i \in (sep+1)..(dot-1) : p[i] # "."
        THEN << SubSeq(p, 1, dot - 1), Tail_from(p, dot) >>
        ELSE << p, <<>> >>

\* posixpath.join(a, b)
join(a, b) ==
    IF Len(b) > 0 /\ b[1] = "/" THEN b
    ELSE IF a = <<>> \/ a[Len(a)] = "/" THEN a \o b
    ELSE a \o <<"/">> \o b

\* posixpath.normpath on absolute paths without "." and ".." components and
\* with one leading separator: repeated separators collapse to one and a
\* trailing separator is dropped.
RECURSIVE collapse(_)
collapse(p) ==
    IF Len(p) <= 1 THEN p
    ELSE IF p[1] = "/" /\ p[2] = "/" THEN collapse(Tail(p))
    ELSE <<p[1]>> \o collapse(Tail(p))

normpath(p) ==
    LET c == collapse(p)
    IN  IF Len(c) > 1 /\ c[Len(c)] = "/" THEN SubSeq(c, 1, Len(c) - 1) ELSE c

(***************************************************************************)
(* Module-level tables of img_convert_gui.py.                              *)
(***************************************************************************)
JPG  == << "J","P","G" >>
JPEG == << "J","P","E","G" >>
PNG  == << "P","N","G" >>
BMP  == << "B","M","P" >>
TIFF == << "T","I","F","F" >>
WEBP == << "W","E","B","P" >>
HEIC == << "H","E","I","C" >>

\* FORMAT_MAPPING.get(fmt, fmt): the name PIL knows the format by.
FORMAT_MAPPING(fmt) == IF fmt = JPG THEN JPEG ELSE fmt

SUPPORTED_OUTPUT_FORMATS == << JPG, PNG, BMP, TIFF, WEBP, HEIC >>

SUPPORTED_INPUT_EXTENSIONS ==
    << << ".","j","p","g" >>, << ".","j","p","e","g" >>, << ".","p","n","g" >>,
       << ".","b","m","p" >>, << ".","h","e","i","c" >>, << ".","h","e","i","f" >>,
       << ".","t","i","f","f" >>, << ".","t","i","f" >>, << ".","w","e","b","p" >> >>

\* MainWindow.__init__: the display format an input extension is grouped under
\* ("JPEG" is shown and filtered as "JPG"; every other extension by itself).
display_ext(ext) ==
    LET d == upper(Tail(ext)) IN IF d = JPEG THEN JPG ELSE d

(***************************************************************************)
(* The disk the runs are explored on: the files found by the enumeration   *)
(* (MainWindow.collect_files keeps files_to_convert sorted), each with the *)
(* pixel mode PIL decodes it to, "garbage" for data PIL cannot identify.   *)
(***************************************************************************)
DirIn  == << "/","i","n" >>
DirOut == << "/","o","u","t" >>

File_a_png  == DirIn \o << "/","a",".","p","n","g" >>
File_b_jpeg == DirIn \o << "/","b",".","j","p","e","g" >>
File_c_JPG  == DirIn \o << "/","c",".","J","P","G" >>

FileUniverse == << File_a_png, File_b_jpeg, File_c_JPG >>

InitialDisk ==
    [p \in {File_a_png, File_b_jpeg, File_c_JPG} |->
        CASE p = File_a_png  -> "RGBA"
          [] p = File_b_jpeg -> "RGB"
          [] p = File_c_JPG  -> "garbage"]

\* The files the path and option handling of convert_image is explored on,
\* each given by its directory, its name without the extension, its extension
\* and its pixel mode: a plain name, a name with two dots and an upper-case
\* extension in a directory with a dot, a grayscale image with an alpha
\* channel and a palette image.
OptionFiles ==
    { [ dir  |-> DirIn,
        base |-> << "p","h","o","t","o" >>,
        ext  |-> << ".","p","n","g" >>,
        mode |-> "RGBA" ],
      [ dir  |-> DirIn \o << "/","m","y",".","p","i","c","s" >>,
        base |-> << "x",".","v","2" >>,
        ext  |-> << ".","P","N","G" >>,
        mode |-> "RGB" ],
      [ dir  |-> DirIn,
        base |-> << "l","a" >>,
        ext  |-> << ".","t","i","f","f" >>,
        mode |-> "LA" ],
      [ dir  |-> DirIn,
        base |-> << "p","a","l" >>,
        ext  |-> << ".","p","n","g" >>,
        mode |-> "P" ] }

\* The path the enumeration lists the file under.
PathOf(f) == f.dir \o << "/" >> \o f.base \o f.ext

OptionDisk ==
    [p \in { PathOf(f) : f \in OptionFiles } |->
        (CHOOSE f \in OptionFiles : PathOf(f) = p).mode]

\* Files that share their name without the extension, as a recursive
\* enumeration of /in lists them (sorted): two in one directory, and one of
\* the same name in a subdirectory.
File_a_bmp     == DirIn \o << "/","a",".","b","m","p" >>
File_sub_a_png == DirIn \o << "/","s","u","b","/","a",".","p","n","g" >>

SameNameFiles == << File_a_bmp, File_a_png, File_sub_a_png >>

SameNameDisk ==
    [p \in {File_a_bmp, File_a_png, File_sub_a_png} |->
        CASE p = File_a_bmp     -> "RGB"
          [] p = File_a_png     -> "RGBA"
          [] p = File_sub_a_png -> "RGB"]

\* The path computations of convert_image on the files of the model, as
\* tables computed once: the normalized path, and the directory, the base
\* name and the extension of a normalized path.
InputPaths ==
    { FileUniverse[i] : i \in 1..Len(FileUniverse) } \cup DOMAIN OptionDisk
        \cup DOMAIN SameNameDisk

NormPathOf == [p \in InputPaths |-> normpath(p)]

NormalPaths == { NormPathOf[p] : p \in InputPaths }

SplitNameOf == [p \in NormalPaths |-> splitext(basename(p))]

DirNameOf == [p \in NormalPaths |-> dirname(p)]

\* The sub-lists of files in list order (the checked items of the tree).
RECURSIVE SubLists(_)
SubLists(fs) ==
    IF fs = <<>> THEN { <<>> }
    ELSE LET rest == SubLists(Tail(fs))
         IN  rest \cup { <<Head(fs)>> \o r : r \in rest }

Batches == { b \in SubLists(FileUniverse) : Len(b) \in 1..MaxFiles }

\* The output formats and output directories the scheduler is explored with.
SchedFormats == { JPG, PNG }
SchedOutputDirs == { DirOut }

\* The converters the scheduler is explored with: the batches of the three
\* files, heic_quality at the default of the spin box.
SchedConvs ==
    [ files         : Batches,
      output_format : SchedFormats,
      output_dir    : SchedOutputDirs,
      append_suffix : BOOLEAN,
      max_workers   : 1..MaxWorkers,
      replace_files : BOOLEAN,
      heic_quality  : {90} ]

\* The converters over the batches of the files that share a name, the
\* suffix check box as the window starts with it (checked).
SameNameConvs ==
    [ files         : { b \in SubLists(SameNameFiles) : Len(b) \in 1..MaxFiles },
      output_format : SchedFormats,
      output_dir    : SchedOutputDirs,
      append_suffix : {TRUE},
      max_workers   : 1..MaxWorkers,
      replace_files : BOOLEAN,
      heic_quality  : {90} ]

\* The converters the options are explored with, each over one file: every
\* output format; the output directory as chosen, with a trailing separator
\* and empty (the window clears it when "replace" is checked; os.makedirs
\* refuses it otherwise); heic_quality inside and outside the range of the
\* spin box, for HEIC output.
AllFormats == { SUPPORTED_OUTPUT_FORMATS[i] : i \in 1..Len(SUPPORTED_OUTPUT_FORMATS) }
OptionOutputDirs == { <<>>, DirOut, DirOut \o << "/" >> }
OptionQualities == { -5, 0, 57, 90, 100, 150 }

OptionConvs ==
    { c \in [ files         : { << PathOf(f) >> : f \in OptionFiles },
              output_format : AllFormats,
              output_dir    : OptionOutputDirs,
              append_suffix : BOOLEAN,
              max_workers   : {1},
              replace_files : BOOLEAN,
              heic_quality  : OptionQualities ] :
        /\ c.output_format # HEIC => c.heic_quality = 90
        /\ c.output_dir = <<>> => c.replace_files }

(***************************************************************************)
(* State.                                                                  *)
(***************************************************************************)
VARIABLES
    conv,          \* ImageConverter.__init__: files, output_format, output_dir,
                   \* append_suffix, max_workers, replace_files, heic_quality
    is_cancelled,  \* ImageConverter._is_cancelled
    disk,          \* the files on disk: path -> pixel mode of its content
    dirs,          \* the directories on disk
    envRemoved,    \* the files other programs removed since the enumeration
    runPc,         \* where ImageConverter.run is
    completed,     \* run: completed
    total_files,   \* run: total_files
    submitted,     \* run: how many files executor.submit was called for
    task,          \* the futures of run: one record per file
    yieldQ,        \* as_completed: finished futures not yet yielded, in yield order
    consumed,      \* the futures the result loop has taken a result from, in order
    doneOrder,     \* the finished futures whose result the loop has still to
                   \* consume, in the order they finished
    cancelSeen,    \* the result loop has read _is_cancelled as set
    inFlight,      \* the futures that were past their own check when it did
    signals,       \* WorkerSignals: what was emitted (per-file log and error are in task)
    ui             \* MainWindow: is_processing, convert_btn, cancel_btn, errors shown,
                   \* and how many ImageConverter runs it has started

vars == << conv, is_cancelled, disk, dirs, envRemoved, runPc, completed,
           total_files, submitted, task, yieldQ, consumed, doneOrder, cancelSeen,
           inFlight, signals, ui >>

Tasks == 1..Len(conv.files)

NewTask(path) ==
    [ pc          |-> "new",     \* new, queued, running, decode, encode, remove, done, hung
      input_path  |-> path,
      output_path |-> <<>>,
      mode        |-> "",        \* image.mode once opened
      heif_mode   |-> "",        \* save_as_heic: mode handed to pillow_heif
      quality     |-> -1,        \* save_as_heic: quality handed to heif_file.save
      starts      |-> 0,         \* how many times a worker thread took the work item
      results     |-> 0,         \* how many times convert_image returned into the future
      wrote       |-> FALSE,     \* the encoder has written output_path
      removed     |-> FALSE,     \* os.remove(input_path) has been done
      failed_at   |-> "",        \* the step that raised
      outcome     |-> "",        \* the return path taken
      result      |-> FALSE,     \* the value convert_image returned
      log         |-> <<>>,      \* signals.log emitted by this task
      errors      |-> 0 ]        \* signals.error emitted by this task

\* The state after ImageConverter.__init__ of one of the converters convs,
\* with the files files_on_disk on disk.
InitOn(convs, files_on_disk) ==
    /\ conv \in convs
    /\ is_cancelled = FALSE
    /\ disk = files_on_disk
    /\ dirs = { DirNameOf[NormPathOf[p]] : p \in DOMAIN files_on_disk }
    /\ envRemoved = {}
    /\ runPc = "idle"
    /\ completed = 0
    /\ total_files = 0
    /\ submitted = 0
    /\ task = [t \in 1..Len(conv.files) |-> NewTask(conv.files[t])]
    /\ yieldQ = <<>>
    /\ consumed = <<>>
    /\ doneOrder = <<>>
    /\ cancelSeen = FALSE
    /\ inFlight = {}
    /\ signals = [ progress |-> <<>>, completed |-> <<>>, finished |-> 0,
                   cancel_log |-> 0 ]
    /\ ui = [ is_processing |-> FALSE, convert_btn |-> TRUE, cancel_btn |-> FALSE,
              errors |-> 0, finished_seen |-> 0, converters |-> 0 ]

Init == InitOn(SchedConvs, InitialDisk)

OptionInit == InitOn(OptionConvs, OptionDisk)

SameNameInit == InitOn(SameNameConvs, SameNameDisk)

(***************************************************************************)
(* MainWindow: the handlers that start, cancel and finish a run.  One      *)
(* ImageConverter is followed from its construction to its finished signal.*)
(***************************************************************************)
\* start_conversion, when os.makedirs does not raise and files are checked.
StartConversion ==
    /\ ui.convert_btn
    /\ runPc = "idle"
    /\ dirs' = IF ~conv.replace_files THEN dirs \cup {conv.output_dir} ELSE dirs
    /\ ui' = [ui EXCEPT !.is_processing = TRUE, !.convert_btn = FALSE,
                        !.cancel_btn = TRUE, !.converters = @ + 1]
    /\ is_cancelled' = FALSE
    /\ runPc' = "created"
    /\ UNCHANGED << conv, doneOrder, disk, envRemoved, completed, total_files, submitted,
                    task, yieldQ, consumed, cancelSeen, inFlight, signals >>

\* start_conversion, when os.makedirs raises: the except branch reports the
\* error in the window and no ImageConverter is created.
StartConversionFails ==
    /\ ui.convert_btn
    /\ runPc = "idle"
    /\ ~conv.replace_files
    /\ ui' = [ui EXCEPT !.errors = @ + 1, !.convert_btn = TRUE,
                        !.cancel_btn = FALSE, !.is_processing = FALSE]
    /\ runPc' = "not_started"
    /\ UNCHANGED << conv, doneOrder, is_cancelled, disk, dirs, envRemoved, completed,
                    total_files, submitted, task, yieldQ, consumed, cancelSeen, inFlight,
                    signals >>

\* cancel_conversion, which calls cancel of self.converter, the converter
\* started last: the followed one unless another was started after it.
CancelConversion ==
    /\ ui.cancel_btn
    /\ is_cancelled' = (is_cancelled \/ ui.converters <= 1)
    /\ signals' = IF ui.converters <= 1
                  THEN [signals EXCEPT !.cancel_log = @ + 1] ELSE signals
    /\ ui' = [ui EXCEPT !.cancel_btn = FALSE, !.convert_btn = TRUE,
                        !.is_processing = FALSE]
    /\ UNCHANGED << conv, doneOrder, disk, dirs, envRemoved, runPc, completed, total_files,
                    submitted, task, yieldQ, consumed, cancelSeen, inFlight >>

\* conversion_finished, the slot of the finished signal.
ConversionFinished ==
    /\ ui.finished_seen < signals.finished
    /\ ui' = [ui EXCEPT !.finished_seen = @ + 1, !.convert_btn = TRUE,
                        !.cancel_btn = FALSE, !.is_processing = FALSE]
    /\ UNCHANGED << conv, doneOrder, is_cancelled, disk, dirs, envRemoved, runPc, completed,
                    total_files, submitted, task, yieldQ, consumed, cancelSeen, inFlight,
                    signals >>

\* start_conversion again, while the run that is followed has not emitted
\* finished: nothing in it looks at is_processing or at self.converter, so
\* whenever the Convert button is enabled another ImageConverter is created
\* and started on the thread pool (its own tasks are not followed).
StartConversionAgain ==
    /\ ui.convert_btn
    /\ runPc \in {"created", "submit", "collect", "shutdown"}
    /\ ui.converters < MaxConverters
    /\ dirs' = IF ~conv.replace_files THEN dirs \cup {conv.output_dir} ELSE dirs
    /\ ui' = [ui EXCEPT !.is_processing = TRUE, !.convert_btn = FALSE,
                        !.cancel_btn = TRUE, !.converters = @ + 1]
    /\ UNCHANGED << conv, doneOrder, is_cancelled, disk, envRemoved, runPc, completed,
                    total_files, submitted, task, yieldQ, consumed, cancelSeen, inFlight,
                    signals >>

\* update_active_file_count, the slot of itemChanged: the user checks or
\* unchecks a file of the tree after the start, and the Convert button is
\* enabled when a file is checked.
ItemChanged ==
    /\ runPc # "idle"
    /\ \E some_checked \in BOOLEAN :
          /\ ui.convert_btn # some_checked
          /\ ui' = [ui EXCEPT !.convert_btn = some_checked]
    /\ UNCHANGED << conv, doneOrder, is_cancelled, disk, dirs, envRemoved, runPc,
                    completed, total_files, submitted, task, yieldQ, consumed,
                    cancelSeen, inFlight, signals >>

(***************************************************************************)
(* ImageConverter.run                                                      *)
(***************************************************************************)
\* The orders a set of futures can be iterated in.
Orders(S) ==
    { q \in [1..Cardinality(S) -> S] : \A i, j \in 1..Cardinality(S) : q[i] = q[j] => i = j }

AllDone == \A t \in Tasks : task[t].pc = "done"

\* Every result counted, whatever it is.
count_every_result(c, result) == c + 1

\* "completed = 1" in the place of "completed += 1".
count_result_assigns(c, result) == IF result THEN 1 ELSE c

\* "if future.result(): completed += 1"
count_result(c, result) == IF result THEN c + 1 ELSE c

\* The integer quotient taken before the multiplication.
progress_divides_first(c, n) == (c \div n) * 100

\* The division left out.
progress_not_divided(c, n) == c * 100

\* "int(completed * 100 / total_files)"
progress_value(c, n) == (c * 100) \div n

\* The check of the flag left out of the result loop.
loop_never_breaks == FALSE

\* "if self._is_cancelled:" of the result loop
loop_breaks == is_cancelled

\* A "return" in the place of the "break": run ends inside the loop.
on_break_returns == "returned"

\* "break": run goes on at the end of the with block, and from there to
\* its last line.
on_break == "shutdown"

\* The futures a worker thread is executing.
Running ==
    { t \in Tasks : task[t].pc \in {"running", "decode", "encode", "remove", "hung"} }

\* run is started by the thread pool: the counters and the executor.
RunBegin ==
    /\ runPc = "created"
    /\ completed' = 0
    /\ total_files' = Len(conv.files)
    /\ runPc' = "submit"
    /\ UNCHANGED << conv, doneOrder, is_cancelled, disk, dirs, envRemoved, submitted, task,
                    yieldQ, consumed, cancelSeen, inFlight, signals, ui >>

\* One executor.submit of the dict comprehension.
RunSubmit ==
    /\ runPc = "submit"
    /\ submitted < Len(conv.files)
    /\ submitted' = submitted + 1
    /\ task' = [task EXCEPT ![submitted + 1].pc = "queued"]
    /\ UNCHANGED << conv, doneOrder, is_cancelled, disk, dirs, envRemoved, runPc, completed,
                    total_files, yieldQ, consumed, cancelSeen, inFlight, signals, ui >>

\* The executor cannot start a worker thread: submit raises, the with block
\* is left by the exception and run ends without reaching its last line.
RunPoolFails ==
    /\ runPc = "submit"
    /\ submitted < Len(conv.files)
    /\ runPc' = "raised"
    /\ UNCHANGED << conv, doneOrder, is_cancelled, disk, dirs, envRemoved, completed,
                    total_files, submitted, task, yieldQ, consumed, cancelSeen, inFlight,
                    signals, ui >>

\* as_completed is entered: the futures already finished are yielded first, in
\* the iteration order of a set; the others as they finish.
RunAsCompleted ==
    /\ runPc = "submit"
    /\ submitted = Len(conv.files)
    /\ yieldQ' \in Orders({ t \in Tasks : task[t].pc = "done" })
    /\ runPc' = "collect"
    /\ UNCHANGED << conv, doneOrder, is_cancelled, disk, dirs, envRemoved, completed,
                    total_files, submitted, task, consumed, cancelSeen, inFlight, signals, ui >>

\* One iteration of the result loop on the future as_completed yields.  A
\* future that holds an exception makes future.result() raise it out of run.
RunResult ==
    /\ runPc = "collect"
    /\ yieldQ # <<>>
    /\ LET t == Head(yieldQ) IN
         IF loop_breaks
         THEN /\ runPc' = on_break
              /\ doneOrder' = <<>>
              /\ UNCHANGED << completed, consumed, signals, yieldQ >>
         ELSE IF task[t].outcome = "raised"
         THEN /\ runPc' = "raised"
              /\ yieldQ' = Tail(yieldQ)
              /\ doneOrder' = <<>>
              /\ UNCHANGED << completed, consumed, signals >>
         ELSE LET c == count_result(completed, task[t].result) IN
              /\ completed' = c
              /\ consumed' = Append(consumed, t)
              /\ yieldQ' = Tail(yieldQ)
              /\ doneOrder' = SelectSeq(doneOrder, LAMBDA u : u # t)
              /\ signals' = [signals EXCEPT
                                !.progress = Append(@, progress_value(c, total_files)),
                                !.completed = Append(@, c)]
              /\ runPc' = IF Len(consumed) + 1 = Len(conv.files)
                          THEN "shutdown" ELSE "collect"
    /\ cancelSeen' = (cancelSeen \/ is_cancelled)
    /\ inFlight' = IF ~cancelSeen /\ is_cancelled
                   THEN { t \in Tasks : task[t].pc \in {"decode", "encode", "remove"} }
                   ELSE inFlight
    /\ UNCHANGED << conv, is_cancelled, disk, dirs, envRemoved, total_files,
                    submitted, task, ui >>

\* "shutdown(wait=False)": the with block is left while tasks are executing.
exit_without_wait == TRUE

\* The end of the with block: ThreadPoolExecutor.__exit__ is
\* shutdown(wait=True), which returns when every work item has returned.
exit_waits == AllDone

\* The with block is left (the executor is shut down with wait=True) and the
\* finished signal is emitted.
RunExit ==
    /\ runPc = "shutdown"
    /\ exit_waits
    /\ signals' = [signals EXCEPT !.finished = @ + 1]
    /\ runPc' = "finished"
    /\ UNCHANGED << conv, doneOrder, is_cancelled, disk, dirs, envRemoved, completed,
                    total_files, submitted, task, yieldQ, consumed, cancelSeen, inFlight, ui >>

(***************************************************************************)
(* ImageConverter.convert_image and save_as_heic                           *)
(***************************************************************************)
\* "base_name, ext = os.path.splitext(os.path.basename(input_path))"
split_name(input_path) == SplitNameOf[input_path]

\* "ext = ext[1:].upper()"
source_ext(input_path) == upper(Tail_from(split_name(input_path)[2], 2))

\* The extension compared as it is spelled: "if ext[1:] == self.output_format".
same_format_as_spelled(input_path, output_format) ==
    Tail_from(split_name(input_path)[2], 2) = output_format

\* "if ext == self.output_format.upper()"
same_format(input_path, output_format) == source_ext(input_path) = upper(output_format)

\* "_out" appended whenever append_suffix is set, replacing or not.
out_base_name_always_suffixed(input_path, append_suffix, replace_files) ==
    IF append_suffix
    THEN split_name(input_path)[1] \o << "_","o","u","t" >>
    ELSE split_name(input_path)[1]

\* base_name, with "_out" appended when append_suffix and not replace_files.
out_base_name(input_path, append_suffix, replace_files) ==
    IF append_suffix /\ ~replace_files
    THEN split_name(input_path)[1] \o << "_","o","u","t" >>
    ELSE split_name(input_path)[1]

\* "output_dir = self.output_dir if not self.replace_files else dirname(input_path)"
out_dir(input_path, output_dir, replace_files) ==
    IF ~replace_files THEN output_dir ELSE DirNameOf[input_path]

\* The format name used as the extension as it is, not lower-cased.
out_path_keeps_case(input_path, c) ==
    join(out_dir(input_path, c.output_dir, c.replace_files),
         out_base_name(input_path, c.append_suffix, c.replace_files)
            \o << "." >> \o c.output_format)

\* "output_path = os.path.join(output_dir, f'{base_name}.{output_format.lower()}')"
out_path(input_path, c) ==
    join(out_dir(input_path, c.output_dir, c.replace_files),
         out_base_name(input_path, c.append_suffix, c.replace_files)
            \o << "." >> \o lower(c.output_format))

\* "self.output_format.upper() in ['JPG', 'JPEG'] and image.mode in ['RGBA', 'P']"
needs_rgb(output_format, mode) ==
    upper(output_format) \in {JPG, JPEG} /\ mode \in {"RGBA", "P"}

\* np.array(image).shape of a 1x1 image of the mode.
array_shape(mode) ==
    CASE mode = "RGB"  -> << 1, 1, 3 >>
      [] mode = "RGBA" -> << 1, 1, 4 >>
      [] mode = "LA"   -> << 1, 1, 2 >>
      [] OTHER         -> << 1, 1 >>

\* "else: mode = 'BGRA'" in the place of the raise.
heif_mode_never_raises(shape) ==
    IF Len(shape) = 2 THEN "L"
    ELSE IF shape[3] = 3 THEN "BGR"
    ELSE "BGRA"

\* save_as_heic, "Determine mode": "" stands for the ValueError.
heif_mode(shape) ==
    IF Len(shape) = 2 THEN "L"
    ELSE IF shape[3] = 3 THEN "BGR"
    ELSE IF shape[3] = 4 THEN "BGRA"
    ELSE ""

Max(a, b) == IF a >= b THEN a ELSE b
Min(a, b) == IF a <= b THEN a ELSE b

\* max and min exchanged: "min(0, max(100, self.heic_quality))".
clamp_quality_exchanged(q) == Min(0, Max(100, q))

\* "quality = max(0, min(100, self.heic_quality))"
clamp_quality(q) == Max(0, Min(100, q))

\* A retry: the file that failed is put back in the executor's queue.
except_retries(rec, step, exc) == [rec EXCEPT !.pc = "queued", !.failed_at = step]

\* Only the "except Exception" clause: a FileNotFoundError is reported as
\* any other exception is.
except_only_exception(rec, step, exc) ==
    [rec EXCEPT !.pc = "done", !.failed_at = step, !.outcome = "error",
                !.errors = @ + 1, !.result = FALSE]

\* Only the "except FileNotFoundError" clause: any other exception leaves
\* convert_image and is stored in the future.
except_only_fnf(rec, step, exc) ==
    IF exc = "FileNotFoundError"
    THEN [rec EXCEPT !.pc = "done", !.failed_at = step, !.outcome = "fnf",
                     !.log = Append(@, "file no longer exists"), !.result = FALSE]
    ELSE [rec EXCEPT !.pc = "done", !.failed_at = step, !.outcome = "raised"]

\* The except clauses of convert_image: what the task record becomes when the
\* step raises exc ("FileNotFoundError", or another Exception).
except_clause(rec, step, exc) ==
    IF exc = "FileNotFoundError"
    THEN [rec EXCEPT !.pc = "done", !.failed_at = step, !.outcome = "fnf",
                     !.log = Append(@, "file no longer exists"), !.result = FALSE]
    ELSE [rec EXCEPT !.pc = "done", !.failed_at = step, !.outcome = "error",
                     !.errors = @ + 1, !.result = FALSE]

\* The future of t gets rec; a finished future is handed to as_completed's
\* waiter when there is one.
SetTask(t, rec) ==
    /\ task' = [task EXCEPT ![t] = IF rec.pc = "done"
                                   THEN [rec EXCEPT !.results = @ + 1] ELSE rec]
    /\ yieldQ' = IF rec.pc = "done" /\ runPc = "collect" THEN Append(yieldQ, t) ELSE yieldQ
    /\ doneOrder' = IF rec.pc = "done" /\ runPc \in {"submit", "collect"}
                    THEN Append(doneOrder, t) ELSE doneOrder

\* An executor with one worker thread, whatever max_workers is.
worker_single == Cardinality(Running) < 1

\* An executor that starts a thread for every work item.
worker_per_item == TRUE

\* "ThreadPoolExecutor(max_workers=self.max_workers)": a thread is idle, or
\* fewer than max_workers threads have been started.
worker_free == Cardinality(Running) < conv.max_workers

\* A worker thread takes the oldest work item of the executor's queue.
TaskStart(t) ==
    /\ task[t].pc = "queued"
    /\ \A j \in Tasks : j < t => task[j].pc # "queued"
    /\ worker_free
    /\ SetTask(t, [task[t] EXCEPT !.pc = "running", !.starts = @ + 1])
    /\ UNCHANGED << conv, is_cancelled, disk, dirs, envRemoved, runPc, completed,
                    total_files, submitted, consumed, cancelSeen, inFlight, signals, ui >>

\* convert_image without its first two lines: the flag is not looked at.
convert_begin_unchecked(rec, c, cancelled, files_on_disk, exc) ==
    LET path == NormPathOf[rec.input_path] IN
    IF path \notin files_on_disk
    THEN [rec EXCEPT !.pc = "done", !.outcome = "missing", !.input_path = path,
                     !.log = Append(@, "file no longer exists"), !.result = FALSE]
    ELSE IF same_format(path, c.output_format)
    THEN [rec EXCEPT !.pc = "done", !.outcome = "same_format", !.input_path = path,
                     !.log = Append(@, "same format conversion"), !.result = FALSE]
    ELSE IF ~c.replace_files /\ exc # "none"
    THEN except_clause([rec EXCEPT !.input_path = path], "makedirs", exc)
    ELSE [rec EXCEPT !.pc = "decode", !.input_path = path,
                     !.output_path = out_path(path, c),
                     !.log = Append(@, "Converting")]

\* convert_image up to "Converting: ...": the cancellation check, the
\* existence check, the same-format check, the output path and os.makedirs
\* (which raises exc unless exc is "none").
convert_begin(rec, c, cancelled, files_on_disk, exc) ==
    LET path == NormPathOf[rec.input_path] IN
    IF cancelled
    THEN [rec EXCEPT !.pc = "done", !.outcome = "cancelled", !.result = FALSE]
    ELSE IF path \notin files_on_disk
    THEN [rec EXCEPT !.pc = "done", !.outcome = "missing", !.input_path = path,
                     !.log = Append(@, "file no longer exists"), !.result = FALSE]
    ELSE IF same_format(path, c.output_format)
    THEN [rec EXCEPT !.pc = "done", !.outcome = "same_format", !.input_path = path,
                     !.log = Append(@, "same format conversion"), !.result = FALSE]
    ELSE IF ~c.replace_files /\ exc # "none"
    THEN except_clause([rec EXCEPT !.input_path = path], "makedirs", exc)
    ELSE [rec EXCEPT !.pc = "decode", !.input_path = path,
                     !.output_path = out_path(path, c),
                     !.log = Append(@, "Converting")]

TaskBegin(t) ==
    /\ task[t].pc = "running"
    /\ \E exc \in {"none", "OSError"} :
         LET rec == convert_begin(task[t], conv, is_cancelled, DOMAIN disk, exc) IN
         /\ SetTask(t, rec)
         /\ dirs' = IF rec.pc = "decode" /\ ~conv.replace_files
                    THEN dirs \cup {conv.output_dir} ELSE dirs
    /\ UNCHANGED << conv, is_cancelled, disk, envRemoved, runPc, completed,
                    total_files, submitted, consumed, cancelSeen, inFlight, signals, ui >>

\* Image.open and the conversion to RGB for JPG output.
TaskDecode(t) ==
    /\ task[t].pc = "decode"
    /\ LET rec == task[t] IN
         IF rec.input_path \notin DOMAIN disk
         THEN SetTask(t, except_clause(rec, "decode", "FileNotFoundError"))
         ELSE IF disk[rec.input_path] = "garbage"
         THEN SetTask(t, except_clause(rec, "decode", "UnidentifiedImageError"))
         ELSE IF needs_rgb(conv.output_format, disk[rec.input_path])
         THEN \E exc \in {"none", "OSError"} :
                IF exc # "none"
                THEN SetTask(t, except_clause(rec, "convert", exc))
                ELSE SetTask(t, [rec EXCEPT !.pc = "encode", !.mode = "RGB",
                                           !.log = Append(@, "Converting image to RGB")])
         ELSE SetTask(t, [rec EXCEPT !.pc = "encode", !.mode = disk[rec.input_path]])
    /\ UNCHANGED << conv, is_cancelled, disk, dirs, envRemoved, runPc, completed,
                    total_files, submitted, consumed, cancelSeen, inFlight, signals, ui >>

\* image.save(output_path, format=pil_format): the pixel modes the PIL
\* writer of the format takes; for another mode it raises OSError ("cannot
\* write mode LA as JPEG").
pil_writes(pil_format, mode) ==
    CASE pil_format = JPEG -> mode \in {"1", "L", "RGB", "RGBX", "CMYK", "YCbCr"}
      [] pil_format = BMP  -> mode \in {"1", "L", "P", "RGB", "RGBA"}
      [] OTHER             -> TRUE

\* os.remove in a "finally": it is reached when the encoder raised, too.
encode_raises_then_removes(rec, exc) == [rec EXCEPT !.pc = "remove", !.failed_at = "encode"]

\* The encoder raises exc: control goes to the except clauses.
encode_raises(rec, exc) == except_clause(rec, "encode", exc)

\* What convert_image does after a successful write: on to os.remove when
\* replacing, else "Successfully converted" and return True.
after_write(rec, replace_files) ==
    IF replace_files
    THEN [rec EXCEPT !.pc = "remove", !.wrote = TRUE]
    ELSE [rec EXCEPT !.pc = "done", !.wrote = TRUE, !.outcome = "success",
                     !.log = Append(@, "Successfully converted"), !.result = TRUE]

\* The encoder: save_as_heic for HEIC output, image.save otherwise.
TaskEncode(t) ==
    /\ task[t].pc = "encode"
    /\ LET rec == task[t] IN
         IF upper(conv.output_format) = HEIC
         THEN LET logged == [rec EXCEPT !.log = Append(@, "Using pillow_heif")]
                  hm     == heif_mode(array_shape(rec.mode))
              IN  IF hm = ""
                  THEN /\ SetTask(t, encode_raises(logged, "ValueError"))
                       /\ UNCHANGED disk
                  ELSE \E exc \in {"none", "OSError"} :
                       IF exc # "none"
                       THEN /\ SetTask(t, encode_raises(logged, exc))
                            /\ UNCHANGED disk
                       ELSE /\ disk' = (rec.output_path :> rec.mode) @@ disk
                            /\ SetTask(t, after_write(
                                   [logged EXCEPT !.heif_mode = hm,
                                                  !.quality = clamp_quality(conv.heic_quality)],
                                   conv.replace_files))
         ELSE IF ~pil_writes(FORMAT_MAPPING(conv.output_format), rec.mode)
         THEN /\ SetTask(t, encode_raises(rec, "OSError"))
              /\ UNCHANGED disk
         ELSE \E exc \in {"none", "OSError"} :
              IF exc # "none"
              THEN /\ SetTask(t, encode_raises(rec, exc))
                   /\ UNCHANGED disk
              ELSE /\ disk' = (rec.output_path :> rec.mode) @@ disk
                   /\ SetTask(t, after_write(rec, conv.replace_files))
    /\ UNCHANGED << conv, is_cancelled, dirs, envRemoved, runPc, completed,
                    total_files, submitted, consumed, cancelSeen, inFlight, signals, ui >>

\* "if self.replace_files: os.remove(input_path)", then the success log.
TaskRemove(t) ==
    /\ task[t].pc = "remove"
    /\ LET rec == task[t] IN
         IF rec.input_path \notin DOMAIN disk
         THEN /\ SetTask(t, except_clause(rec, "remove", "FileNotFoundError"))
              /\ UNCHANGED disk
         ELSE \E exc \in {"none", "PermissionError"} :
              IF exc # "none"
              THEN /\ SetTask(t, except_clause(rec, "remove", exc))
                   /\ UNCHANGED disk
              ELSE /\ disk' = [q \in DOMAIN disk \ {rec.input_path} |-> disk[q]]
                   /\ SetTask(t, [rec EXCEPT !.pc = "done", !.removed = TRUE,
                                             !.outcome = "success",
                                             !.log = Append(@, "Successfully converted"),
                                             !.result = TRUE])
    /\ UNCHANGED << conv, is_cancelled, dirs, envRemoved, runPc, completed,
                    total_files, submitted, consumed, cancelSeen, inFlight, signals, ui >>

(***************************************************************************)
(* A call that never returns: Image.open or the encoder blocks for ever    *)
(* (convert_image sets no timeout).  One task of a run hangs at most.      *)
(***************************************************************************)
TaskHang(t) ==
    /\ task[t].pc \in {"decode", "encode"}
    /\ \A u \in Tasks : task[u].pc # "hung"
    /\ task' = [task EXCEPT ![t].pc = "hung"]
    /\ UNCHANGED << conv, is_cancelled, disk, dirs, envRemoved, runPc, completed,
                    total_files, submitted, yieldQ, consumed, doneOrder, cancelSeen,
                    inFlight, signals, ui >>

(***************************************************************************)
(* The environment: another program removes a file of the batch.           *)
(***************************************************************************)
EnvRemove(p) ==
    /\ runPc \in {"created", "submit", "collect", "shutdown"}
    /\ p \in DOMAIN disk
    /\ \E t \in Tasks : conv.files[t] = p
    /\ Cardinality(envRemoved) < MaxEnvRemovals
    /\ disk' = [q \in DOMAIN disk \ {p} |-> disk[q]]
    /\ envRemoved' = envRemoved \cup {p}
    /\ UNCHANGED << conv, doneOrder, is_cancelled, dirs, runPc, completed, total_files,
                    submitted, task, yieldQ, consumed, cancelSeen, inFlight, signals, ui >>

(***************************************************************************)
(* Specifications.                                                         *)
(***************************************************************************)
TaskStep(t) ==
    \/ TaskStart(t)
    \/ TaskBegin(t)
    \/ TaskDecode(t)
    \/ TaskEncode(t)
    \/ TaskRemove(t)

RunStep ==
    \/ RunBegin
    \/ RunSubmit
    \/ RunAsCompleted
    \/ RunResult
    \/ RunExit

Next ==
    \/ StartConversion
    \/ CancelConversion
    \/ ConversionFinished
    \/ RunStep
    \/ \E t \in Tasks : TaskStep(t)
    \/ \E p \in InputPaths : EnvRemove(p)

\* Every run of the converter whose pool and output directory can be created.
Spec == Init /\ [][Next]_vars

\* A step of run or of a worker thread.
ProgramStep == RunStep \/ \E t \in Tasks : TaskStep(t)

\* The same runs, with the scheduling the thread pools give: while run or a
\* worker thread can take a step, one of them does (the user and other
\* programs need not act).
\* The liveness runs start from the window's defaults for the output format
\* (the first entry of the combo box) and the suffix check box (checked).
LiveInit ==
    /\ Init
    /\ conv.output_format = SUPPORTED_OUTPUT_FORMATS[1]
    /\ conv.append_suffix

LiveSpec == LiveInit /\ [][Next]_vars /\ WF_vars(ProgramStep)

\* The runs in which a task may hang and the user does not cancel, from the
\* window's defaults for the output format and the suffix, with the
\* scheduling of LiveSpec: the thread that hangs takes no further step, run
\* and the other threads do.
NextHang ==
    \/ StartConversion
    \/ ConversionFinished
    \/ RunStep
    \/ \E t \in Tasks : TaskStep(t)
    \/ \E t \in Tasks : TaskHang(t)
    \/ \E p \in InputPaths : EnvRemove(p)

HangSpec == LiveInit /\ [][NextHang]_vars /\ WF_vars(ProgramStep)

\* The runs over one file, with every output format and option value.
OptionSpec == OptionInit /\ [][Next]_vars

\* The runs over files that share their name without the extension.
SameNameSpec == SameNameInit /\ [][Next]_vars

\* The runs with the user pressing Convert again and changing the check
\* boxes of the file tree while the run goes on.
NextUi ==
    \/ Next
    \/ StartConversionAgain
    \/ ItemChanged

UiSpec == Init /\ [][NextUi]_vars

\* The runs in which the output directory or a worker thread cannot be created.
NextFail ==
    \/ Next
    \/ StartConversionFails
    \/ RunPoolFails

FailSpec == Init /\ [][NextFail]_vars

(***************************************************************************)
(* Properties.                                                             *)
(***************************************************************************)
NFiles == Len(conv.files)

\* The tasks that have returned True.
Succeeded == { t \in Tasks : task[t].pc = "done" /\ task[t].result }

\* The number of successes among the first i results the loop consumed.
SuccessesIn(i) == Cardinality({ j \in 1..i : task[consumed[j]].result })

\* C1: every run that exists emits finished, and never emits it twice.
C1_FinishedExactlyOnce ==
    /\ (runPc = "created") ~> (signals.finished = 1)
    /\ [](signals.finished <= 1)

\* A cancelled run in which a file failed has emitted finished.
C1_Witness ==
    /\ signals.finished = 1
    /\ cancelSeen
    /\ \E t \in Tasks : task[t].outcome = "error"

\* C2: when replacing, a task removes its source only after its encoder has
\* written the output; after a failed decode or encode the task has removed
\* nothing, and a source that is gone was removed by its own task after the
\* write, or by another program.
C2_RemoveOnlyAfterEncode ==
    conv.replace_files =>
        \A t \in Tasks :
            /\ task[t].removed => task[t].wrote
            /\ task[t].failed_at \in {"decode", "convert", "encode"} =>
                  /\ ~task[t].removed
                  /\ task[t].input_path \in (DOMAIN disk) \cup envRemoved
            /\ task[t].input_path \notin DOMAIN disk =>
                  \/ task[t].removed /\ task[t].wrote
                  \/ task[t].input_path \in envRemoved

\* One task has replaced its source, another failed in the encoder and its
\* source is still on disk.
C2_Witness ==
    /\ conv.replace_files
    /\ \E t \in Tasks :
          /\ task[t].removed /\ task[t].outcome = "success"
          /\ task[t].input_path \notin DOMAIN disk
          /\ task[t].output_path \in DOMAIN disk
    /\ \E t \in Tasks :
          /\ task[t].pc = "done" /\ task[t].failed_at = "encode"
          /\ task[t].input_path \in DOMAIN disk

\* C3: no exception leaves convert_image, so run is never left by one, and
\* a run that was not cancelled ends with every task executed and consumed.
C3_FailuresContained ==
    /\ \A t \in Tasks : task[t].outcome # "raised"
    /\ runPc # "raised"
    /\ runPc = "finished" => AllDone
    /\ runPc = "finished" /\ ~cancelSeen =>
          \A t \in Tasks : \E i \in 1..Len(consumed) : consumed[i] = t

\* A file failed with an error, and a file consumed after it was converted.
C3_Witness ==
    /\ runPc = "finished"
    /\ ~cancelSeen
    /\ \E i, j \in 1..Len(consumed) :
          /\ i < j
          /\ task[consumed[i]].outcome = "error"
          /\ task[consumed[j]].outcome = "success"

\* C4: a run that could not create its output directory or its pool has shown
\* one top-level error and has emitted finished.
C4_RunLevelFailureFinishes ==
    runPc \in {"raised", "not_started"} =>
        /\ signals.finished = 1
        /\ ui.errors = 1

\* The format a file is listed and filtered under (MainWindow.input_formats).
format_of(path) == display_ext(lower(split_name(NormPathOf[path])[2]))

\* C5: a file whose own format is the output format is skipped: its task
\* writes nothing and removes nothing.
C5_OwnFormatSkipped ==
    \A t \in Tasks :
        format_of(conv.files[t]) = conv.output_format =>
            /\ ~task[t].wrote
            /\ ~task[t].removed
            /\ task[t].pc = "done" => ~task[t].result

\* C6: from the iteration in which the result loop reads the flag as set, the
\* loop emits nothing and consumes nothing; the tasks that were past their own
\* check go on through their steps, and have returned when run has finished.
C6_NothingAfterCancelSeen ==
    /\ [][cancelSeen' =>
            /\ signals'.progress = signals.progress
            /\ signals'.completed = signals.completed
            /\ consumed' = consumed
            /\ completed' = completed]_vars
    /\ [][\A t \in Tasks :
              task[t].pc \in {"decode", "encode", "remove"} =>
                  task'[t].outcome # "cancelled"]_vars
    /\ [](runPc = "finished" =>
            \A t \in inFlight : task[t].pc = "done" /\ task[t].outcome # "cancelled")

\* After the loop saw the flag, a task that was executing has converted its
\* file, and its result was never consumed.
C6_Witness ==
    /\ cancelSeen
    /\ runPc = "finished"
    /\ \E t \in inFlight :
          /\ task[t].outcome = "success"
          /\ \A i \in 1..Len(consumed) : consumed[i] # t

\* C7: while the run is not cancelled, there is one progress event per
\* consumed result, and the i-th is floor(100 * s / N), s the successes among
\* the first i results consumed.
C7_ProgressIsFloor ==
    ~is_cancelled =>
        /\ Len(signals.progress) = Len(consumed)
        /\ \A i \in 1..Len(consumed) :
              /\ signals.progress[i] * NFiles <= 100 * SuccessesIn(i)
              /\ 100 * SuccessesIn(i) < (signals.progress[i] + 1) * NFiles

\* A run with a failure or skip in it has emitted a progress value that is
\* neither 0 nor 100.
C7_Witness ==
    /\ ~is_cancelled
    /\ runPc = "finished"
    /\ \E t \in Tasks : ~task[t].result
    /\ \E i \in 1..Len(signals.progress) :
          signals.progress[i] > 0 /\ signals.progress[i] < 100

\* C8, as stated: while the run is not cancelled, each completed-count event
\* is greater than the one before it.
C8_StrictlyIncreasing ==
    ~is_cancelled =>
        \A i \in 2..Len(signals.completed) :
            signals.completed[i] > signals.completed[i - 1]

\* C8, amended: while the run is not cancelled, the completed-count events
\* never decrease, and an event is greater than the one before it (by one)
\* exactly when the result consumed for it succeeded.
C8_IncreasesOnSuccess ==
    ~is_cancelled =>
        /\ Len(signals.completed) = Len(consumed)
        /\ \A i \in 1..Len(consumed) :
              LET before == IF i = 1 THEN 0 ELSE signals.completed[i - 1] IN
              signals.completed[i] =
                  IF task[consumed[i]].result THEN before + 1 ELSE before

\* Two results were consumed and the second event repeats the first.
C8_Witness ==
    /\ ~is_cancelled
    /\ Len(signals.completed) = 2
    /\ signals.completed[2] = signals.completed[1]
    /\ ~task[consumed[2]].result

\* C9: every completed-count event is in 0..N and at most the number of tasks
\* that have returned True; progress 100 is emitted only when all N did.
C9_CountBounded ==
    /\ \A i \in 1..Len(signals.completed) :
          /\ signals.completed[i] \in 0..NFiles
          /\ signals.completed[i] <= Cardinality(Succeeded)
    /\ (\E i \in 1..Len(signals.progress) : signals.progress[i] = 100) =>
          Succeeded = Tasks

\* Progress 100 was emitted in a run over two files.
C9_Witness ==
    /\ NFiles = 2
    /\ \E i \in 1..Len(signals.progress) : signals.progress[i] = 100

\* C10: every progress event is an integer in 0..100 and is at least the one
\* before it, cancelled or not.
C10_ProgressMonotonic ==
    \A i \in 1..Len(signals.progress) :
        /\ signals.progress[i] \in 0..100
        /\ i > 1 => signals.progress[i] >= signals.progress[i - 1]

\* The progress rose between two events, in a run that was then cancelled.
C10_Witness ==
    /\ is_cancelled
    /\ Len(signals.progress) = 2
    /\ signals.progress[2] > signals.progress[1]

\* The futures in the sequence q.
Range(q) == { q[i] : i \in 1..Len(q) }

\* The sequence of futures q is in submission order.
InSubmissionOrder(q) == \A i, j \in 1..Len(q) : i < j => q[i] < q[j]

\* C11: the results are consumed in completion order: the result the loop
\* consumes is the one of the task that finished first among the finished
\* tasks it has not consumed yet, whatever the order of submission.
C11_CompletionOrder ==
    [][consumed' # consumed => consumed' = Append(consumed, Head(doneOrder))]_vars

\* C12: with one worker the tasks execute one at a time and in submission
\* order (a task is taken by the worker only when every task submitted before
\* it has returned), and their results are consumed, and the progress events
\* emitted, in submission order.
C12_OneWorkerSubmissionOrder ==
    conv.max_workers = 1 =>
        /\ Cardinality(Running) <= 1
        /\ \A t, u \in Tasks : t < u /\ task[u].starts > 0 => task[t].pc = "done"
        /\ InSubmissionOrder(consumed)
        /\ Len(signals.progress) = Len(consumed)

\* The messages in the sequence of log events q.
Logged(q) == Range(q)

\* Every task has been consumed by the result loop.
AllConsumed == \A t \in Tasks : \E i \in 1..Len(consumed) : consumed[i] = t

\* C13: a task whose decode, conversion, encode or os.remove raised (a
\* FileNotFoundError included) has emitted one error event, has logged no
\* skip and has returned False, and the other files are still processed.
C13_StepFailuresAreErrors ==
    /\ \A t \in Tasks :
          task[t].pc = "done" /\ task[t].failed_at \in {"decode", "convert", "encode", "remove"} =>
              /\ task[t].errors = 1
              /\ "file no longer exists" \notin Logged(task[t].log)
              /\ ~task[t].result
    /\ runPc = "finished" /\ ~cancelSeen => AllConsumed

\* Task t takes the step that looks for its source (the existence check of
\* a task that is not cancelled, or Image.open) after another program has
\* removed the source.
MeetsRemovedSource(t) ==
    /\ conv.files[t] \in envRemoved
    /\ conv.files[t] \notin DOMAIN disk
    /\ \/ task[t].pc = "running" /\ ~is_cancelled
       \/ task[t].pc = "decode"
    /\ task'[t] # task[t]

\* Task t has returned a skip for a source that is no longer there.
SkippedAsGone(t) ==
    /\ task[t].pc = "done"
    /\ task[t].outcome \in {"missing", "fnf"}
    /\ task[t].failed_at \in {"", "decode"}

\* C14: a task whose source was removed before its existence check, or
\* between that check and the decode, returns a skip at that step: it logs
\* "file no longer exists", emits no error event, writes no output, and from
\* there the run goes on to emit finished.
C14_RemovedSourceIsSkipped ==
    /\ [][\A t \in Tasks :
            MeetsRemovedSource(t) =>
                /\ task'[t].pc = "done"
                /\ ~task'[t].result
                /\ task'[t].log = Append(task[t].log, "file no longer exists")
                /\ task'[t].errors = 0
                /\ ~task'[t].wrote
                /\ disk' = disk]_vars
    /\ [](\A t \in Tasks : SkippedAsGone(t) => task[t].errors = 0 /\ ~task[t].wrote)
    /\ (\E t \in Tasks : SkippedAsGone(t)) ~> (signals.finished = 1)

\* A file was removed after its task's existence check and skipped by the
\* decode, a file consumed after it was converted, and the run has finished.
C14_Witness ==
    /\ runPc = "finished"
    /\ \E i, j \in 1..Len(consumed) :
          /\ i < j
          /\ task[consumed[i]].outcome = "fnf" /\ task[consumed[i]].failed_at = "decode"
          /\ "file no longer exists" \in Logged(task[consumed[i]].log)
          /\ task[consumed[j]].outcome = "success"

\* The extension an output file of the format is to have.
ExtensionOf(fmt) ==
    CASE fmt = JPG  -> << "j","p","g" >>
      [] fmt = PNG  -> << "p","n","g" >>
      [] fmt = BMP  -> << "b","m","p" >>
      [] fmt = TIFF -> << "t","i","f","f" >>
      [] fmt = WEBP -> << "w","e","b","p" >>
      [] fmt = HEIC -> << "h","e","i","c" >>

\* Task t was not skipped: it got as far as "Converting: ...".
NotSkipped(t) == "Converting" \in Range(task[t].log)

\* C15: when not replacing, the output path of every task that is not skipped
\* is the output directory, then the source's name without its extension,
\* then "_out" exactly when append_suffix is set, then a dot and the
\* lower-cased output format; a file the task wrote is at that path.
C15_OutputPathInOutputDir ==
    ~conv.replace_files =>
        \A t \in Tasks : \A f \in OptionFiles :
            conv.files[t] = PathOf(f) /\ NotSkipped(t) =>
                LET name == f.base
                              \o (IF conv.append_suffix THEN << "_","o","u","t" >> ELSE <<>>)
                              \o << "." >> \o ExtensionOf(conv.output_format)
                IN  /\ normpath(task[t].output_path)
                         = normpath(conv.output_dir \o << "/" >> \o name)
                    /\ task[t].wrote => task[t].output_path \in DOMAIN disk

\* photo.png was converted to JPG into /out with the suffix: the output file
\* is /out/photo_out.jpg.
C15_Witness ==
    /\ ~conv.replace_files /\ conv.append_suffix
    /\ conv.output_format = JPG /\ conv.output_dir = DirOut
    /\ \E t \in Tasks :
          /\ conv.files[t] = DirIn \o << "/","p","h","o","t","o",".","p","n","g" >>
          /\ task[t].outcome = "success"
          /\ task[t].output_path
                = << "/","o","u","t","/","p","h","o","t","o","_","o","u","t",".","j","p","g" >>
          /\ task[t].output_path \in DOMAIN disk

\* C16: when replacing, whatever append_suffix and output_dir are, the output
\* path of every task that is not skipped is the source's own directory, then
\* the source's name without its extension and without "_out", then a dot and
\* the lower-cased output format; no directory is created and no file is
\* written into the configured output directory.
C16_ReplaceWritesBesideSource ==
    conv.replace_files =>
        /\ \A t \in Tasks : \A f \in OptionFiles :
              conv.files[t] = PathOf(f) /\ NotSkipped(t) =>
                  /\ task[t].output_path
                        = f.dir \o << "/" >> \o f.base \o << "." >>
                                \o ExtensionOf(conv.output_format)
                  /\ task[t].wrote => task[t].output_path \in DOMAIN disk
        /\ dirs = { f.dir : f \in OptionFiles }
        /\ \A p \in DOMAIN disk : normpath(dirname(p)) # normpath(conv.output_dir)

\* With the suffix option set and /out configured, x.v2.PNG was replaced by
\* x.v2.jpg in its own directory, and /out was not created.
C16_Witness ==
    /\ conv.replace_files /\ conv.append_suffix
    /\ conv.output_format = JPG /\ conv.output_dir = DirOut
    /\ DirOut \notin dirs
    /\ \E t \in Tasks :
          /\ task[t].outcome = "success" /\ task[t].removed
          /\ task[t].output_path
                = << "/","i","n","/","m","y",".","p","i","c","s","/","x",".","v","2",".","j","p","g" >>
          /\ task[t].output_path \in DOMAIN disk
          /\ conv.files[t] \notin DOMAIN disk

\* C17: the quality save_as_heic hands to the encoder is heic_quality brought
\* into 0..100: a value in the range is passed as it is (57 stays 57), a
\* greater one becomes 100 (150), a negative one 0 (-5).
C17_HeicQualityClamped ==
    \A t \in Tasks :
        upper(conv.output_format) = HEIC /\ task[t].wrote =>
            /\ task[t].quality \in 0..100
            /\ conv.heic_quality \in 0..100 => task[t].quality = conv.heic_quality
            /\ conv.heic_quality > 100 => task[t].quality = 100
            /\ conv.heic_quality < 0 => task[t].quality = 0
            /\ conv.heic_quality = 57 => task[t].quality = 57
            /\ conv.heic_quality = 150 => task[t].quality = 100
            /\ conv.heic_quality = -5 => task[t].quality = 0

\* photo.png (RGBA) was encoded as HEIC with heic_quality 150: the encoder
\* was given the BGRA layout and the quality 100.
C17_Witness ==
    /\ conv.output_format = HEIC
    /\ conv.heic_quality = 150
    /\ \E t \in Tasks :
          /\ task[t].outcome = "success"
          /\ task[t].heif_mode = "BGRA"
          /\ task[t].quality = 100

\* C18: a task that enters convert_image when the flag is set returns at
\* once and returns False: that step emits no log and no error event and
\* changes neither the files nor the directories on disk, and the task has
\* written and removed nothing.
C18_CancelledTaskDoesNothing ==
    /\ [][\A t \in Tasks :
            task[t].pc = "running" /\ is_cancelled /\ task'[t] # task[t] =>
                /\ task'[t].pc = "done"
                /\ ~task'[t].result
                /\ task'[t].log = <<>>
                /\ task'[t].errors = 0
                /\ ~task'[t].wrote /\ ~task'[t].removed
                /\ disk' = disk
                /\ dirs' = dirs
                /\ signals' = signals]_vars
    /\ [](\A t \in Tasks :
            task[t].outcome = "cancelled" =>
                /\ task[t].log = <<>> /\ task[t].errors = 0
                /\ ~task[t].wrote /\ ~task[t].removed /\ ~task[t].result
                /\ task[t].output_path \notin DOMAIN disk)

\* In a cancelled run that replaces files, a task was taken by a worker after
\* the flag was set and returned without a trace: its source is still on
\* disk; another task had converted and replaced its file.
C18_Witness ==
    /\ is_cancelled /\ conv.replace_files
    /\ runPc = "finished"
    /\ \E t, u \in Tasks :
          /\ task[t].outcome = "cancelled" /\ task[t].starts = 1
          /\ task[t].log = <<>>
          /\ conv.files[t] \in DOMAIN disk
          /\ task[u].outcome = "success" /\ task[u].removed

\* C19: every submitted task is taken by a worker at most once and returns
\* at most once (a task that failed is not executed again), the loop consumes
\* no result twice, a run that has finished has executed every task once,
\* and a run that was not cancelled has consumed one result per task.
C19_ExactlyOnce ==
    /\ \A t \in Tasks :
          /\ task[t].starts = (IF task[t].pc \in {"new", "queued"} THEN 0 ELSE 1)
          /\ task[t].results = (IF task[t].pc = "done" THEN 1 ELSE 0)
    /\ \A i, j \in 1..Len(consumed) : consumed[i] = consumed[j] => i = j
    /\ \A i \in 1..Len(consumed) : task[consumed[i]].results = 1
    /\ runPc = "finished" => \A t \in Tasks : task[t].starts = 1 /\ task[t].results = 1
    /\ runPc = "finished" /\ ~cancelSeen => AllConsumed /\ Len(consumed) = NFiles

\* A run over two files that was not cancelled has finished: one task failed
\* with an error and one succeeded, each executed once and consumed once.
C19_Witness ==
    /\ runPc = "finished" /\ ~is_cancelled
    /\ Len(consumed) = 2
    /\ \E t, u \in Tasks :
          /\ task[t].outcome = "error" /\ task[t].starts = 1 /\ task[t].results = 1
          /\ task[u].outcome = "success" /\ task[u].starts = 1 /\ task[u].results = 1

\* C20: no result is consumed before every file has been submitted, at no
\* moment are more than max_workers tasks executing, and a submitted task
\* that is neither executing nor finished is in the executor's queue.
C20_SubmitAllThenBoundedWorkers ==
    /\ (Len(consumed) > 0 \/ yieldQ # <<>> \/ runPc \in {"collect", "shutdown", "finished"})
          => submitted = NFiles
    /\ Cardinality(Running) <= conv.max_workers
    /\ \A t \in Tasks :
          /\ t <= submitted => task[t].pc # "new"
          /\ t > submitted => task[t].pc = "new"
          /\ t <= submitted /\ t \notin Running /\ task[t].pc # "done" => task[t].pc = "queued"

\* With one worker and two files submitted, the first is in the encoder and
\* the second waits in the queue while run waits for results.
C20_Witness ==
    /\ conv.max_workers = 1 /\ NFiles = 2
    /\ submitted = 2 /\ runPc = "collect"
    /\ task[1].pc = "encode"
    /\ task[2].pc = "queued"

\* C21: finished is emitted only when every submitted task has returned,
\* after a cancellation too; once it is emitted no task takes a step: no log
\* or error event is emitted and no file is written or removed.
C21_FinishedAfterAllTasks ==
    /\ [](signals.finished >= 1 => submitted = NFiles /\ AllDone /\ Running = {})
    /\ [][signals'.finished >= 1 => AllDone]_vars
    /\ [][signals.finished >= 1 => task' = task /\ disk' = disk /\ dirs' = dirs]_vars

\* A run over two files was cancelled before any result was consumed and has
\* emitted finished: both tasks have returned, one of them having written
\* its output.
C21_Witness ==
    /\ signals.finished = 1
    /\ cancelSeen /\ consumed = <<>>
    /\ NFiles = 2 /\ AllDone
    /\ \E t \in Tasks : task[t].wrote /\ task[t].output_path \in DOMAIN disk

\* C22: two tasks of a batch that are not skipped and have different source
\* paths have different output paths.
C22_OutputPathsDistinct ==
    \A t, u \in Tasks :
        /\ NotSkipped(t) /\ NotSkipped(u)
        /\ task[t].input_path # task[u].input_path
        => task[t].output_path # task[u].output_path

\* C23: when replacing, the path a task removes (or is about to remove) is
\* the output path of no task of the batch, its own included: the extension
\* of a removed source is not the target format, that of every output path
\* is; and an output that was written is not removed by a task (it is on
\* disk unless another program removed it).
C23_RemovedIsNoOutput ==
    conv.replace_files =>
        \A t, u \in Tasks :
            /\ task[t].pc = "remove" \/ task[t].removed =>
                  /\ task[t].input_path # task[u].output_path
                  /\ lower(Tail_from(split_name(task[t].input_path)[2], 2))
                        # ExtensionOf(conv.output_format)
            /\ task[u].output_path # <<>> =>
                  endswith(task[u].output_path, << "." >> \o ExtensionOf(conv.output_format))
            /\ task[u].wrote =>
                  task[u].output_path \in (DOMAIN disk) \cup envRemoved

\* a.bmp was replaced by a.png, which is on disk, while the task of the
\* source a.png was skipped for its format.
C23_Witness ==
    /\ conv.replace_files /\ conv.output_format = PNG
    /\ \E t, u \in Tasks :
          /\ task[t].input_path = File_a_bmp /\ task[t].removed
          /\ task[t].output_path = File_a_png
          /\ File_a_png \in DOMAIN disk /\ File_a_bmp \notin DOMAIN disk
          /\ task[u].input_path = File_a_png /\ task[u].outcome = "same_format"

\* Task t is submitted in a run with more than one worker in which another
\* task hangs.
BesideHungTask(t) ==
    /\ t \in Tasks
    /\ conv.max_workers > 1
    /\ task[t].pc \notin {"new", "hung"}
    /\ \E u \in Tasks : u # t /\ task[u].pc = "hung"

\* The result of task t has been consumed and its progress event emitted.
ConsumedWithProgress(t) ==
    /\ t \in Range(consumed)
    /\ task[t].pc = "done"
    /\ Len(signals.progress) = Len(consumed)

\* C24: in a run that is not cancelled, with more than one worker, when a
\* task hangs, every other submitted task is eventually executed and its
\* result consumed, with its progress event.
C24_HangStallsOneWorker ==
    \A t \in 1..MaxFiles : BesideHungTask(t) ~> ConsumedWithProgress(t)

\* The first task hangs in the decoder, the second was taken by the other
\* worker after that, converted its file and its result was consumed.
C24_Witness ==
    /\ conv.max_workers > 1
    /\ NFiles > 1
    /\ task[1].pc = "hung" /\ task[1].mode = ""
    /\ task[2].outcome = "success"
    /\ ConsumedWithProgress(2)

\* C25: from start_conversion until the run has emitted finished, no second
\* ImageConverter is started, whatever the user does in the window.
C25_OneRunAtATime ==
    [][(runPc \in {"created", "submit", "collect", "shutdown"})
          => (ui'.converters = ui.converters)]_vars

\* The pixel modes of PIL with an alpha channel or a palette.
AlphaOrPaletteModes == { "RGBA", "LA", "PA", "P", "RGBa", "La" }

\* C26: for JPG output, an image decoded to a mode with an alpha channel or
\* a palette is handed to the encoder as a plain 3-channel (RGB) image, and
\* the task reports no error for the pixel mode of its file.
C26_JpgGetsThreeChannels ==
    conv.output_format = JPG =>
        \A t \in Tasks : \A f \in OptionFiles :
            conv.files[t] = PathOf(f) /\ f.mode \in AlphaOrPaletteModes =>
                /\ task[t].pc \in {"encode", "remove"} \/ task[t].wrote
                        => task[t].mode = "RGB"
                /\ task[t].failed_at = "encode" => task[t].mode = "RGB"

\* C27: for HEIC output the layout given to the encoder follows the shape of
\* the decoded pixel buffer: two dimensions give "L", three dimensions with 3
\* channels "BGR", with 4 channels "BGRA"; with any other shape the task
\* fails in the encoder with one error event, returns False and writes no
\* output.
C27_HeicLayoutFromShape ==
    conv.output_format = HEIC =>
        \A t \in Tasks : \A f \in OptionFiles :
            conv.files[t] = PathOf(f) =>
                LET shape     == array_shape(f.mode)
                    supported == Len(shape) = 2 \/ (Len(shape) = 3 /\ shape[3] \in {3, 4})
                IN  /\ task[t].wrote =>
                          /\ supported
                          /\ Len(shape) = 2 => task[t].heif_mode = "L"
                          /\ Len(shape) = 3 /\ shape[3] = 3 => task[t].heif_mode = "BGR"
                          /\ Len(shape) = 3 /\ shape[3] = 4 => task[t].heif_mode = "BGRA"
                    /\ ~supported =>
                          /\ ~task[t].wrote /\ ~task[t].removed /\ ~task[t].result
                          /\ task[t].output_path \notin DOMAIN disk
                          /\ task[t].pc = "done" /\ task[t].mode # "" =>
                                /\ task[t].failed_at = "encode"
                                /\ task[t].outcome = "error"
                                /\ task[t].errors = 1

\* la.tiff (two channels) was decoded for HEIC output and failed in
\* save_as_heic with one error event and no output.
C27_Witness ==
    /\ conv.output_format = HEIC
    /\ \E t \in Tasks :
          /\ task[t].mode = "LA"
          /\ "Using pillow_heif" \in Range(task[t].log)
          /\ task[t].pc = "done" /\ task[t].failed_at = "encode"
          /\ task[t].errors = 1
          /\ task[t].output_path \notin DOMAIN disk

====
